---- MODULE Spec2Model ----
(***************************************************************************)
(* Model of the reshape-then-bin pipeline of PyMerge (src/bin/helpers.py,  *)
(* src/config.py).  A table is a sequence of rows, a row a record holding  *)
(* one cell per column.  A numeric cell is <<>> when it is missing (NaN /  *)
(* None) and <<n, d>> for the exact rational n/d, d > 0, in lowest terms;  *)
(* the arithmetic of the reducers is exact (the rounding of float64 is not *)
(* modelled).  A time cell is a record: a string that may or may not parse *)
(* (form "str"), or a datetime counted in whole minutes from the epoch     *)
(* 1970-01-01 00:00 (form "dt"), NaT when ok is FALSE.  Device ids are     *)
(* integers that stand for the keys in their sort order.                   *)
(***************************************************************************)
EXTENDS Integers, Sequences, FiniteSets, TLC

VARIABLES
    wide,       \* the DataFrame handed to melt_then_bin (the wide table)
    columns,    \* the names of the columns of that DataFrame
    interval,   \* the interval string, as a sequence of tokens
    hook,       \* TRUE iff a status_callback was passed
    schedule,   \* config.SELECTED_COLUMNS, the rules in the order of the dict
    again,      \* TRUE iff the caller hands the binned table to bin_data again
    melted,     \* the DataFrame melt_activity_data returned
    out,        \* the DataFrame bin_data returned
    rebinned,   \* the DataFrame the second call of bin_data returned
    msgs,       \* the texts status_callback has received so far
    pc,         \* "start", "melted", "done", "rebinned" or "error"; in a
                \* BinningWorker also "idle" (none started), "read" and "ended"
    err,        \* the exception that ended the call, "" if none
    binning_worker, \* BinningPanel.binning_worker: the arguments of the
                \* worker started last, NoWorker before the first one
    live,       \* the number of workers started whose run has not returned
    signals,    \* the finished / errored signals the worker has emitted
    seen,       \* the number of status signals delivered to the panel
    handled,    \* the number of finished / errored signals delivered
    bin_file,   \* BinningPanel.bin_file, "" for None
    bounded_cb, \* the checkbox "Time already trimmed" is checked
    entries,    \* the start / end controls are enabled
    btn_bin,    \* the Submit button: is it enabled, is it visible
    bin_progress,   \* the progress bar is visible
    status_lbl, \* the text of the status label
    written,    \* the paths of the CSV files _bin_done has written
    published   \* the paths the signal binned_filepath has carried

\* the variables of BinningPanel and of its BinningWorker
gui ==
    <<binning_worker, live, signals, seen, handled, bin_file, bounded_cb, entries,
      btn_bin, bin_progress, status_lbl, written, published>>

vars ==
    <<wide, columns, interval, hook, schedule, again, melted, out, rebinned, msgs, pc,
      err, gui>>

----------------------------------------------------------------------------
(* Bounds and input samples *)

MaxRows == 2

\* indexes i of the activity columns "Act[i]" of the wide table
ActCols == {0, 1}

NumActCols == Cardinality(ActCols)

Missing == <<>>

Num(n) == <<n, 1>>

\* a cell that holds text that is no number: neither missing nor numeric
TextCell == <<"abc">>

NaT == [form |-> "dt", ok |-> FALSE, min |-> 0, off |-> 0]

Stamp(m) == [form |-> "dt", ok |-> TRUE, min |-> m, off |-> 0]

\* the text of a timestamp: wall-clock minute min at UTC offset off minutes
StampText(m, o) == [form |-> "str", ok |-> TRUE, min |-> m, off |-> o]

BadText == [form |-> "str", ok |-> FALSE, min |-> 0, off |-> 0]

----------------------------------------------------------------------------
(* Exact rational arithmetic on cells <<n, d>> *)

Abs(n) == IF n < 0 THEN -n ELSE n

RECURSIVE Gcd(_, _)
Gcd(a, b) == IF b = 0 THEN a ELSE Gcd(b, a % b)

Rat(n, d) ==
    LET g == Gcd(Abs(n), d)
    IN  <<n \div g, d \div g>>

RatAdd(x, y) == Rat(x[1] * y[2] + y[1] * x[2], x[2] * y[2])

RatLess(x, y) == x[1] * y[2] < y[1] * x[2]

RECURSIVE RatSum(_)
RatSum(vals) ==
    IF vals = <<>> THEN Num(0) ELSE RatAdd(Head(vals), RatSum(Tail(vals)))

RECURSIVE RatMax(_)
RatMax(vals) ==
    IF Len(vals) = 1 THEN vals[1]
    ELSE LET m == RatMax(Tail(vals))
         IN  IF RatLess(Head(vals), m) THEN m ELSE Head(vals)

RECURSIVE RatMin(_)
RatMin(vals) ==
    IF Len(vals) = 1 THEN vals[1]
    ELSE LET m == RatMin(Tail(vals))
         IN  IF RatLess(m, Head(vals)) THEN m ELSE Head(vals)

RatMean(vals) ==
    LET s == RatSum(vals)
    IN  Rat(s[1], s[2] * Len(vals))

----------------------------------------------------------------------------
(* config.py *)

TIME_COLUMN == "Time"

DELINEATING_COL == "Dataset"

SELECTED_COLUMNS ==
    << [name |-> "Raw Score",       summarize |-> "mean",        columns |-> <<"Act">>],
       [name |-> "Percent Score",   summarize |-> "act_percent", columns |-> <<"Act">>],
       [name |-> "Temperature",     summarize |-> "mean",        columns |-> <<"T">>],
       [name |-> "Light",           summarize |-> "mean",        columns |-> <<"Light">>],
       [name |-> "Battery Voltage", summarize |-> "mean",        columns |-> <<"Vbat">>] >>

----------------------------------------------------------------------------
(* pandas primitives used by the helpers *)

\* pd.to_datetime(errors="coerce", utc=True).dt.tz_convert(None) on one cell
to_datetime(c) ==
    IF c.form = "dt" THEN c
    ELSE IF c.ok THEN Stamp(c.min - c.off)
    ELSE NaT

\* Timestamp - pd.Timedelta(minutes=k); NaT stays NaT
MinusMinutes(c, k) == IF c.ok THEN Stamp(c.min - k) ELSE NaT

RECURSIVE SortedSeq(_)
SortedSeq(S) ==
    IF S = {} THEN <<>>
    ELSE LET m == CHOOSE x \in S : \A y \in S : x <= y
         IN  <<m>> \o SortedSeq(S \ {m})

RECURSIVE Concat(_)
Concat(ss) == IF ss = <<>> THEN <<>> ELSE Head(ss) \o Concat(Tail(ss))

\* the keys of df.groupby(DELINEATING_COL): sorted, a missing key has no group
GroupKeys(df) ==
    SortedSeq({df[i].Dataset[1] : i \in {j \in 1..Len(df) : df[j].Dataset # Missing}})

\* the order of sort_values(by=[DELINEATING_COL, "Time"]): NaT after every time
TimeLess(a, b) == IF a.ok /\ b.ok THEN a.min < b.min ELSE a.ok /\ ~b.ok

\* the sort keys swapped: by=["Time", DELINEATING_COL]
RowLess_TimeFirst(a, b) ==
    \/ TimeLess(a.Time, b.Time)
    \/ a.Time = b.Time /\ a.Dataset[1] < b.Dataset[1]

RowLess(a, b) ==
    \/ a.Dataset[1] < b.Dataset[1]
    \/ a.Dataset = b.Dataset /\ TimeLess(a.Time, b.Time)

\* x goes after every row that is not greater than it: the sort is stable
RECURSIVE InsertRow(_, _)
InsertRow(s, x) ==
    IF s = <<>> THEN <<x>>
    ELSE IF RowLess(x, Head(s)) THEN <<x>> \o s
    ELSE <<Head(s)>> \o InsertRow(Tail(s), x)

RECURSIVE sort_values(_)
sort_values(df) ==
    IF df = <<>> THEN <<>>
    ELSE InsertRow(sort_values(SubSeq(df, 1, Len(df) - 1)), df[Len(df)])

----------------------------------------------------------------------------
(* melt_activity_data *)

\* df[TIME_COLUMN] = pd.to_datetime(df[TIME_COLUMN], ...): the input is rewritten
ParseTimes(df) == [i \in 1..Len(df) |-> [df[i] EXCEPT !.Time = to_datetime(@)]]

\* the slot of offset k read one column too far and shifted by k + 1 minutes
ExpandRow_OffByOne(device_id, row) ==
    [k \in 1..NumActCols |->
        [Dataset |-> <<device_id>>,
         Time    |-> MinusMinutes(row.Time, k),
         Act     |-> row.Act[k],
         T       |-> row.T,
         Light   |-> row.Light,
         Vbat    |-> row.Vbat]]

\* the new_row dictionaries of one wide row, offset 0 first
ExpandRow(device_id, row) ==
    [k \in 1..NumActCols |->
        [Dataset |-> <<device_id>>,
         Time    |-> MinusMinutes(row.Time, k - 1),
         Act     |-> row.Act[k],
         T       |-> row.T,
         Light   |-> row.Light,
         Vbat    |-> row.Vbat]]

\* melted_rows: the groups in key order, the rows of a group in input order
MeltedRows(df) ==
    LET keys == GroupKeys(df)
        group(d) == SelectSeq(df, LAMBDA r : r.Dataset = <<d>>)
        expand(g, d) == Concat([i \in 1..Len(g) |-> ExpandRow(d, g[i])])
    IN  Concat([n \in 1..Len(keys) |-> expand(group(keys[n]), keys[n])])

\* the dropna left out: every derived row is kept
DropNaAct_KeepAll(rows) == rows

\* the rows without a valid time dropped with those without a value
DropNaAct_AndNaT(rows) == SelectSeq(rows, LAMBDA r : r.Act # Missing /\ r.Time.ok)

\* melted_df.dropna(subset=["Act"])
DropNaAct(rows) == SelectSeq(rows, LAMBDA r : r.Act # Missing)

\* the long table with one row kept per device and minute
MeltResult_DropDuplicates(df) ==
    LET rows == sort_values(DropNaAct(MeltedRows(df)))
        first == {i \in 1..Len(rows) :
                    \A j \in 1..(i - 1) :
                        rows[j].Dataset # rows[i].Dataset \/ rows[j].Time # rows[i].Time}
    IN  [k \in 1..Cardinality(first) |->
            rows[CHOOSE i \in first : Cardinality({j \in first : j < i}) = k - 1]]

\* the table melt_activity_data returns for the parsed table df
MeltResult(df) == sort_values(DropNaAct(MeltedRows(df)))

\* the missing column passed over: an empty long table is returned
melt_activity_data_no_time_Returns ==
    /\ pc = "start"
    /\ TIME_COLUMN \notin columns
    /\ msgs' = IF hook THEN Append(msgs, "Melting data...") ELSE msgs
    /\ pc' = "melted"
    /\ err' = ""
    /\ UNCHANGED gui
    /\ UNCHANGED <<wide, columns, interval, hook, schedule, again, melted, out, rebinned>>

\* the table has no column TIME_COLUMN: df[TIME_COLUMN] raises KeyError
melt_activity_data_no_time ==
    /\ pc = "start"
    /\ TIME_COLUMN \notin columns
    /\ msgs' = IF hook THEN Append(msgs, "Melting data...") ELSE msgs
    /\ pc' = "error"
    /\ err' = "KeyError"
    /\ UNCHANGED gui
    /\ UNCHANGED <<wide, columns, interval, hook, schedule, again, melted, out, rebinned>>

\* status_callback called without the test for None: a call without a hook
\* ends in the TypeError of calling None
melt_activity_data_HookCalled ==
    /\ pc = "start"
    /\ TIME_COLUMN \in columns
    /\ msgs' = IF hook THEN Append(msgs, "Melting data...") ELSE msgs
    /\ wide' = IF hook THEN ParseTimes(wide) ELSE wide
    /\ IF ~hook \/ MeltedRows(wide') = <<>>
       THEN /\ pc' = "error"
            /\ err' = IF hook THEN "KeyError" ELSE "TypeError"
            /\ melted' = <<>>
       ELSE /\ pc' = "melted"
            /\ err' = ""
            /\ melted' = MeltResult(wide')
    /\ UNCHANGED gui
    /\ UNCHANGED <<columns, interval, hook, schedule, again, out, rebinned>>

melt_activity_data ==
    /\ pc = "start"
    /\ TIME_COLUMN \in columns
    /\ msgs' = IF hook THEN Append(msgs, "Melting data...") ELSE msgs
    /\ wide' = ParseTimes(wide)
    /\ IF MeltedRows(wide') = <<>>
       THEN \* pd.DataFrame([]) has no column "Act": dropna raises KeyError
            /\ pc' = "error"
            /\ err' = "KeyError"
            /\ melted' = <<>>
       ELSE /\ pc' = "melted"
            /\ err' = ""
            /\ melted' = MeltResult(wide')
    /\ UNCHANGED gui
    /\ UNCHANGED <<columns, interval, hook, schedule, again, out, rebinned>>

----------------------------------------------------------------------------
(* bin_data *)

\* a token of the interval string: a maximal run of digits (n >= 0) or a
\* maximal run of other characters (n = -1, the text in w)
Digits(n) == [n |-> n, w |-> ""]

Word(w) == [n |-> -1, w |-> w]

\* the words of the model's vocabulary that contain the substring s
Contains(w, s) ==
    \/ s = "day"  /\ w \in {" days", " day", "days"}
    \/ s = "hour" /\ w \in {" hours", " hour", "hours"}

\* s in interval: a substring without digits lies inside one word token
InText(s, text) == \E i \in 1..Len(text) : text[i].n = -1 /\ Contains(text[i].w, s)

\* re.search(r"(\d+)", interval): the index of the first run of digits, 0 if none
SearchDigits(text) ==
    IF \E i \in 1..Len(text) : text[i].n >= 0
    THEN CHOOSE i \in 1..Len(text) :
            /\ text[i].n >= 0
            /\ \A j \in 1..(i - 1) : text[j].n < 0
    ELSE 0

\* the length in minutes of one "D", "H" or "min"
UnitMinutes(text) ==
    IF InText("day", text) THEN 1440
    ELSE IF InText("hour", text) THEN 60
    ELSE 1

\* the width in minutes of f"{int(duration_value)}{unit}"
BinWidth(text) == text[SearchDigits(text)].n * UnitMinutes(text)

\* dt.round in place of dt.floor: the nearest multiple of the width
\* the boundary above the time in place of the one at or below it
Floor_Up(c, width) ==
    IF ~c.ok THEN NaT
    ELSE IF width = 0 THEN c
    ELSE Stamp(((c.min \div width) + 1) * width)

Floor_Nearest(c, width) ==
    IF ~c.ok THEN NaT
    ELSE IF width = 0 THEN c
    ELSE Stamp(((2 * c.min + width) \div (2 * width)) * width)

\* Series.dt.floor(freq) on one cell: the multiple of the width, counted from
\* the epoch, at or below the time; NaT stays NaT. For a width of zero, the
\* pandas versions that do not raise return the time itself
Floor(c, width) ==
    IF ~c.ok THEN NaT
    ELSE IF width = 0 THEN c
    ELSE Stamp((c.min \div width) * width)

\* the bins counted from the first time of the table in place of the epoch
WithBin_FromFirstRow(df, width) ==
    [i \in 1..Len(df) |->
        LET t == to_datetime(df[i].Time)
            t0 == to_datetime(df[1].Time)
            origin == IF t0.ok /\ width > 0 THEN t0.min % width ELSE 0
        IN  [Dataset |-> df[i].Dataset, Time |-> t, Act |-> df[i].Act,
             T |-> df[i].T, Light |-> df[i].Light, Vbat |-> df[i].Vbat,
             Bin |-> IF t.ok THEN Stamp(Floor(Stamp(t.min - origin), width).min + origin)
                     ELSE NaT]]

\* df["Bin"] = df[TIME_COLUMN].dt.floor(...), after the times are parsed again
WithBin(df, width) ==
    [i \in 1..Len(df) |->
        LET t == to_datetime(df[i].Time)
        IN  [Dataset |-> df[i].Dataset, Time |-> t, Act |-> df[i].Act,
             T |-> df[i].T, Light |-> df[i].Light, Vbat |-> df[i].Vbat,
             Bin |-> Floor(t, width)]]

\* only the rows with a temperature make a group (a dropna before the groupby)
BinKeys_DropNaRows(df) ==
    {<<df[i].Dataset[1], df[i].Bin.min>> :
        i \in {j \in 1..Len(df) : df[j].Bin.ok /\ df[j].T # Missing}}

\* the group keys of df.groupby([DELINEATING_COL, "Bin"]): a NaT key has no group
BinKeys(df) ==
    {<<df[i].Dataset[1], df[i].Bin.min>> : i \in {j \in 1..Len(df) : df[j].Bin.ok}}

KeyLess(a, b) == a[1] < b[1] \/ (a[1] = b[1] /\ a[2] < b[2])

RECURSIVE SortedKeys(_)
SortedKeys(S) ==
    IF S = {} THEN <<>>
    ELSE LET m == CHOOSE x \in S : \A y \in S \ {x} : KeyLess(x, y)
         IN  <<m>> \o SortedKeys(S \ {m})

\* the device left out of the group key: groupby("Bin") alone
SubDf_AnyDevice(df, key) ==
    SelectSeq(df, LAMBDA r : r.Bin.ok /\ r.Bin.min = key[2])

\* the rows of one group, in the order of the table
SubDf(df, key) ==
    SelectSeq(df, LAMBDA r : r.Bin.ok /\ r.Dataset[1] = key[1] /\ r.Bin.min = key[2])

\* only the first source column is read: subdf[cols[0]]
Ravel_FirstColumn(subdf, cols) == [i \in 1..Len(subdf) |-> subdf[i][cols[1]]]

\* subdf[cols].to_numpy().ravel(): row by row, the columns in the rule's order
Ravel(subdf, cols) ==
    Concat([i \in 1..Len(subdf) |-> [c \in 1..Len(cols) |-> subdf[i][cols[c]]]])

\* vals[~np.isnan(vals)]
DropNaN(vals) == SelectSeq(vals, LAMBDA v : v # Missing)

\* the reducers tried before the test for an empty array: np.sum([]) is 0
agg_func_SumBeforeEmpty(agg, cols, subdf) ==
    LET vals == DropNaN(Ravel(subdf, cols))
    IN  IF agg = "sum" THEN RatSum(vals)
        ELSE IF vals = <<>> THEN Missing
        ELSE IF agg = "max" THEN RatMax(vals)
        ELSE IF agg = "min" THEN RatMin(vals)
        ELSE IF agg = "act_percent"
             THEN RatAdd(Rat(RatMean(vals)[1] * 50, RatMean(vals)[2]), Num(50))
        ELSE RatMean(vals)

\* an empty array reduced to 0 in place of NaN
agg_func_EmptyIsZero(agg, cols, subdf) ==
    LET vals == DropNaN(Ravel(subdf, cols))
    IN  IF vals = <<>> THEN Num(0)
        ELSE IF agg = "sum" THEN RatSum(vals)
        ELSE IF agg = "max" THEN RatMax(vals)
        ELSE IF agg = "min" THEN RatMin(vals)
        ELSE IF agg = "act_percent"
             THEN RatAdd(Rat(RatMean(vals)[1] * 50, RatMean(vals)[2]), Num(50))
        ELSE RatMean(vals)

\* the percentage clipped to 0..100
agg_func_Clamped(agg, cols, subdf) ==
    LET vals == DropNaN(Ravel(subdf, cols))
        pct == RatAdd(Rat(RatMean(vals)[1] * 50, RatMean(vals)[2]), Num(50))
    IN  IF vals = <<>> THEN Missing
        ELSE IF agg = "sum" THEN RatSum(vals)
        ELSE IF agg = "max" THEN RatMax(vals)
        ELSE IF agg = "min" THEN RatMin(vals)
        ELSE IF agg = "act_percent"
             THEN IF RatLess(pct, Num(0)) THEN Num(0)
                  ELSE IF RatLess(Num(100), pct) THEN Num(100)
                  ELSE pct
        ELSE RatMean(vals)

agg_func_UnknownIsMissing(agg, cols, subdf) ==
    LET vals == DropNaN(Ravel(subdf, cols))
    IN  IF vals = <<>> THEN Missing
        ELSE IF agg = "sum" THEN RatSum(vals)
        ELSE IF agg = "max" THEN RatMax(vals)
        ELSE IF agg = "min" THEN RatMin(vals)
        ELSE IF agg = "act_percent"
             THEN RatAdd(Rat(RatMean(vals)[1] * 50, RatMean(vals)[2]), Num(50))
        ELSE IF agg = "mean" THEN RatMean(vals)
        ELSE Missing

agg_func(agg, cols, subdf) ==
    LET vals == DropNaN(Ravel(subdf, cols))
    IN  IF vals = <<>> THEN Missing
        ELSE IF agg = "sum" THEN RatSum(vals)
        ELSE IF agg = "max" THEN RatMax(vals)
        ELSE IF agg = "min" THEN RatMin(vals)
        ELSE IF agg = "act_percent"
             THEN RatAdd(Rat(RatMean(vals)[1] * 50, RatMean(vals)[2]), Num(50))
        ELSE RatMean(vals)

\* the groups without a value left out of the summary (a dropna on it)
Summary_DropNa(df, cfg) ==
    LET keys == SortedKeys(BinKeys(df))
        all == [k \in 1..Len(keys) |->
                  [Dataset |-> <<keys[k][1]>>,
                   Bin     |-> Stamp(keys[k][2]),
                   name    |-> cfg.name,
                   val     |-> agg_func(IF "summarize" \in DOMAIN cfg THEN cfg.summarize
                                        ELSE "mean", cfg.columns, SubDf(df, keys[k]))]]
    IN  SelectSeq(all, LAMBDA s : s.val # Missing)

\* cfg.get(key, default) of a rule of the schedule
Get(cfg, key, default) == IF key \in DOMAIN cfg THEN cfg[key] ELSE default

\* summary_df of one rule: one row per group, the groups in key order
Summary(df, cfg) ==
    LET keys == SortedKeys(BinKeys(df))
    IN  [k \in 1..Len(keys) |->
            [Dataset |-> <<keys[k][1]>>,
             Bin     |-> Stamp(keys[k][2]),
             name    |-> cfg.name,
             val     |-> agg_func(Get(cfg, "summarize", "mean"), cfg.columns,
                                  SubDf(df, keys[k]))]]

\* merge appends the suffixes "_x" and "_y" to a column name, other than the
\* keys, that both tables have: the value columns of the left table under the
\* names they get next to a new column called name
LeftNames(vals, name) ==
    [c \in 1..Len(vals) |->
        IF vals[c].name = name THEN [vals[c] EXCEPT !.name = name \o "_x"] ELSE vals[c]]

\* the name the new column gets next to the value columns vals
RightName(vals, name) ==
    IF \E c \in 1..Len(vals) : vals[c].name = name THEN name \o "_y" ELSE name

\* out.merge(summary_df, on=[DELINEATING_COL, "Bin"], how="left"): each row of
\* out once per matching row of summary_df, once with a missing value if none
LeftMerge(left, sdf) ==
    Concat([i \in 1..Len(left) |->
        LET hits == SelectSeq(sdf, LAMBDA s : s.Dataset = left[i].Dataset
                                              /\ s.Bin = left[i].Bin)
            name == IF sdf = <<>> THEN "" ELSE sdf[1].name
            kept == LeftNames(left[i].vals, name)
            new  == RightName(left[i].vals, name)
        IN  IF hits = <<>>
            THEN <<[left[i] EXCEPT !.vals = Append(kept, [name |-> new, val |-> Missing])]>>
            ELSE [h \in 1..Len(hits) |->
                    [left[i] EXCEPT !.vals =
                        Append(kept, [name |-> new, val |-> hits[h].val])]]])

RECURSIVE MergeAll(_, _)
MergeAll(acc, summaries) ==
    IF summaries = <<>> THEN acc
    ELSE MergeAll(LeftMerge(acc, Head(summaries)), Tail(summaries))

\* the rows of summary[0] without a value left out before the joins
BinResult_FirstRuleRows(df, sched) ==
    LET summary == [r \in 1..Len(sched) |-> Summary(df, sched[r])]
        valued == SelectSeq(summary[1], LAMBDA s : s.val # Missing)
        first == [k \in 1..Len(valued) |->
                    [Dataset |-> valued[k].Dataset,
                     Bin     |-> valued[k].Bin,
                     vals    |-> <<[name |-> valued[k].name, val |-> valued[k].val]>>]]
        merged == MergeAll(first, Tail(summary))
    IN  [k \in 1..Len(merged) |->
            [Dataset |-> merged[k].Dataset,
             Time    |-> merged[k].Bin,
             vals    |-> merged[k].vals]]

\* the table bin_data returns for the long table df (with its Bin column) and
\* the schedule: summary[0] joined with the others, "Bin" renamed to "Time"
BinResult(df, sched) ==
    LET summary == [r \in 1..Len(sched) |-> Summary(df, sched[r])]
        first == [k \in 1..Len(summary[1]) |->
                    [Dataset |-> summary[1][k].Dataset,
                     Bin     |-> summary[1][k].Bin,
                     vals    |-> <<[name |-> summary[1][k].name,
                                    val  |-> summary[1][k].val]>>]]
        merged == MergeAll(first, Tail(summary))
    IN  [k \in 1..Len(merged) |->
            [Dataset |-> merged[k].Dataset,
             Time    |-> merged[k].Bin,
             vals    |-> merged[k].vals]]

\* the hook told of the binning before the interval is looked at
bin_data_invalid_Announced ==
    /\ pc = "melted"
    /\ SearchDigits(interval) = 0
    /\ msgs' = IF hook THEN Append(msgs, "Binning data...") ELSE msgs
    /\ pc' = "error"
    /\ err' = "ValueError"
    /\ UNCHANGED gui
    /\ UNCHANGED <<wide, columns, interval, hook, schedule, again, melted, out, rebinned>>

\* the interval has no digits: ValueError before anything else happens
bin_data_invalid ==
    /\ pc = "melted"
    /\ SearchDigits(interval) = 0
    /\ pc' = "error"
    /\ err' = "ValueError"
    /\ UNCHANGED gui
    /\ UNCHANGED <<wide, columns, interval, hook, schedule, again, melted, out, rebinned, msgs>>

\* a column that holds a text cell is an object column, and so is every
\* selection subdf[cols] that takes it: the source columns of the rules of the
\* schedule that are object columns of df
ObjectColumns(df, sched) ==
    {col \in UNION {{sched[r].columns[c] : c \in 1..Len(sched[r].columns)} :
                        r \in 1..Len(sched)} :
        \E i \in 1..Len(df) : df[i][col] = TextCell}

\* np.isnan(vals) on an object array: agg_func raises TypeError on the first
\* group of the first rule that reads an object column
bin_data_type_error ==
    /\ pc = "melted"
    /\ SearchDigits(interval) # 0
    /\ BinKeys(WithBin(melted, BinWidth(interval))) # {}
    /\ ObjectColumns(melted, schedule) # {}
    /\ msgs' = IF hook THEN Append(msgs, "Binning data...") ELSE msgs
    /\ melted' = WithBin(melted, BinWidth(interval))
    /\ pc' = "error"
    /\ err' = "TypeError"
    /\ UNCHANGED gui
    /\ UNCHANGED <<wide, columns, interval, hook, schedule, again, out, rebinned>>

\* df[TIME_COLUMN] = pd.to_datetime(df[TIME_COLUMN], ...) of bin_data
ReparseTimes(df) == [i \in 1..Len(df) |-> [df[i] EXCEPT !.Time = to_datetime(@)]]

\* the magnitude is zero: dt.floor("0H") divides by the width in the pandas
\* versions that round in compiled code (ZeroDivisionError); the others return
\* the times as they are, and bin_data goes on
bin_data_zero_division ==
    /\ pc = "melted"
    /\ SearchDigits(interval) # 0
    /\ BinWidth(interval) = 0
    /\ msgs' = IF hook THEN Append(msgs, "Binning data...") ELSE msgs
    /\ melted' = ReparseTimes(melted)
    /\ pc' = "error"
    /\ err' = "ZeroDivisionError"
    /\ UNCHANGED gui
    /\ UNCHANGED <<wide, columns, interval, hook, schedule, again, out, rebinned>>

\* no row of the long table has a valid time (or it has no row at all, every
\* activity value was missing): groupby.apply has no group to call agg_func
\* on, and what reset_index and merge make of its result depends on the pandas
\* version: a table without rows, or a ValueError, or the TypeError of agg_func
\* called once on no rows of an object column
bin_data_empty ==
    /\ pc = "melted"
    /\ SearchDigits(interval) # 0
    /\ BinKeys(WithBin(melted, BinWidth(interval))) = {}
    /\ msgs' = IF hook THEN Append(msgs, "Binning data...") ELSE msgs
    /\ melted' = WithBin(melted, BinWidth(interval))
    /\ \/ pc' = "done" /\ err' = ""
       \/ pc' = "error" /\ err' = "ValueError"
       \/ pc' = "error" /\ err' = "TypeError" /\ ObjectColumns(melted, schedule) # {}
    /\ out' = <<>>
    /\ UNCHANGED gui
    /\ UNCHANGED <<wide, columns, interval, hook, schedule, again, rebinned>>

bin_data ==
    /\ pc = "melted"
    /\ SearchDigits(interval) # 0
    /\ BinKeys(WithBin(melted, BinWidth(interval))) # {}
    /\ ObjectColumns(melted, schedule) = {}
    /\ msgs' = IF hook THEN Append(msgs, "Binning data...") ELSE msgs
    /\ melted' = WithBin(melted, BinWidth(interval))
    /\ out' = BinResult(melted', schedule)
    /\ pc' = "done"
    /\ err' = ""
    /\ UNCHANGED gui
    /\ UNCHANGED <<wide, columns, interval, hook, schedule, again, rebinned>>

\* a table bin_data returned, handed to bin_data as df: one column for each
\* name of its value columns, the times parsed and the column "Bin" added
BinnedFrame(table, width) ==
    [k \in 1..Len(table) |->
        LET t == to_datetime(table[k].Time)
            vals == table[k].vals
        IN  [col \in {"Dataset", "Time", "Bin"} \cup {vals[c].name : c \in 1..Len(vals)} |->
                IF col = "Dataset" THEN table[k].Dataset
                ELSE IF col = "Time" THEN t
                ELSE IF col = "Bin" THEN Floor(t, width)
                ELSE vals[CHOOSE c \in 1..Len(vals) : vals[c].name = col].val]]

\* the source columns of the rules of the schedule that df does not have:
\* subdf[cols] raises KeyError for them
AbsentColumns(df, sched) ==
    UNION {{sched[r].columns[c] : c \in 1..Len(sched[r].columns)} : r \in 1..Len(sched)}
        \ (DOMAIN df[1])

\* the caller hands the table bin_data returned to bin_data again, with the
\* same interval: bin_data(out, interval). A table without rows has no group,
\* and what becomes of it depends on the pandas version
bin_data_again ==
    /\ pc = "done"
    /\ again
    /\ msgs' = IF hook THEN Append(msgs, "Binning data...") ELSE msgs
    /\ out' = [k \in 1..Len(out) |->
                 [Dataset |-> out[k].Dataset,
                  Time    |-> to_datetime(out[k].Time),
                  vals    |-> out[k].vals,
                  Bin     |-> Floor(to_datetime(out[k].Time), BinWidth(interval))]]
    /\ LET df == BinnedFrame(out, BinWidth(interval))
       IN  IF out = <<>>
           THEN rebinned' = <<>> /\ err' \in {"", "KeyError", "ValueError"}
           ELSE IF AbsentColumns(df, schedule) # {}
           THEN rebinned' = <<>> /\ err' = "KeyError"
           ELSE rebinned' = BinResult(df, schedule) /\ err' = ""
    /\ pc' = "rebinned"
    /\ UNCHANGED gui
    /\ UNCHANGED <<wide, columns, interval, hook, schedule, again, melted>>

\* melt_then_bin: melt_activity_data, then bin_data on its result
melt_then_bin ==
    \/ melt_activity_data_no_time
    \/ melt_activity_data
    \/ bin_data_invalid
    \/ bin_data_zero_division
    \/ bin_data_type_error
    \/ bin_data_empty
    \/ bin_data
    \/ bin_data_again

----------------------------------------------------------------------------
(* The inputs of a run *)

WideRow(d, t, acts, inst) ==
    [Dataset |-> d, Time |-> t, Act |-> acts,
     T |-> inst.T, Light |-> inst.Light, Vbat |-> inst.Vbat]

Devices == {1, 2}

InstA == [T |-> Num(5), Light |-> Num(2), Vbat |-> Num(4)]

InstB == [T |-> Missing, Light |-> Missing, Vbat |-> Num(3)]

\* the instantaneous readings of a wide row
Insts == {InstA, InstB}

\* 00:01 as a datetime, and the text "02:15+01:00", which is 01:15 UTC
Stamps == {Stamp(1), StampText(135, 60)}

Windows == { <<Num(-1), Num(3)>>, <<Missing, Num(-1)>> }

\* rows with an unparseable time, with no or one activity value left, with a
\* derived time before the epoch, and with no device id
EdgeRows ==
    { WideRow(<<1>>, BadText, <<Num(-1), Num(3)>>, InstA),
      WideRow(<<2>>, BadText, <<Num(3), Missing>>, InstA),
      WideRow(<<1>>, Stamp(1), <<Missing, Missing>>, InstA),
      WideRow(<<2>>, Stamp(0), <<Missing, Num(-3)>>, InstB),
      WideRow(Missing, Stamp(1), <<Num(-1), Num(3)>>, InstA) }

WideRows ==
    {WideRow(<<d>>, t, w, inst) : d \in Devices, t \in Stamps, w \in Windows, inst \in Insts}
        \cup EdgeRows

Tables == UNION {[1..n -> WideRows] : n \in 0..MaxRows}

\* a schedule with the other reducers and with rules over several columns
OtherSchedule ==
    << [name |-> "Total", summarize |-> "sum",         columns |-> <<"T">>],
       [name |-> "Peak",  summarize |-> "max",         columns |-> <<"Act", "T">>],
       [name |-> "High",  summarize |-> "max",         columns |-> <<"T", "Light">>],
       [name |-> "Low",   summarize |-> "min",         columns |-> <<"Light", "T">>],
       [name |-> "Avg",   summarize |-> "mean",        columns |-> <<"T", "Light">>],
       [name |-> "Pct",   summarize |-> "act_percent", columns |-> <<"T">>] >>

\* a schedule with two rules of the same name
TwinSchedule ==
    << [name |-> "X", summarize |-> "mean", columns |-> <<"Act">>],
       [name |-> "X", summarize |-> "sum",  columns |-> <<"T">>] >>

\* a schedule with a reducer name agg_func does not know, and a rule without
\* the key "summarize"
LooseSchedule ==
    << [name |-> "Med",  summarize |-> "median", columns |-> <<"Act">>],
       [name |-> "Dflt", columns |-> <<"T", "Light">>],
       [name |-> "Mean", summarize |-> "mean",   columns |-> <<"Act">>],
       [name |-> "Both", summarize |-> "mean",   columns |-> <<"T", "Light">>] >>

\* the rules of the configuration whose reducer is mean
MeanRules == SelectSeq(SELECTED_COLUMNS, LAMBDA cfg : cfg.summarize = "mean")

\* a schedule of mean rules that each read the column of their own name
OwnSchedule ==
    << [name |-> "Act",   summarize |-> "mean", columns |-> <<"Act">>],
       [name |-> "T",     summarize |-> "mean", columns |-> <<"T">>],
       [name |-> "Light", summarize |-> "mean", columns |-> <<"Light">>] >>

Text(n, unit) == <<Digits(n), Word(unit)>>

\* the calls: interval, status_callback given or None, schedule
Calls ==
    { <<Text(15, " minutes"), TRUE,  SELECTED_COLUMNS>>,
      <<Text(15, " minutes"), FALSE, OtherSchedule>>,
      <<Text(1, " hours"),   FALSE, SELECTED_COLUMNS>>,
      <<Text(1, " hours"),   TRUE,  OtherSchedule>>,
      <<Text(1, " days"),    TRUE,  OtherSchedule>>,
      <<<<Word("abc minutes")>>, TRUE, SELECTED_COLUMNS>> }

\* the calls that are run on the tables of FewTables
EdgeCalls ==
    { <<Text(15, " minutes"), FALSE, LooseSchedule>>,
      <<<<Word("abc "), Digits(5), Word(" minutes")>>, TRUE, SELECTED_COLUMNS>>,
      <<<<Word("-"), Digits(5), Word(" days")>>, FALSE, SELECTED_COLUMNS>>,
      <<Text(0, " hours"), TRUE, SELECTED_COLUMNS>>,
      <<Text(15, " minutes"), TRUE, TwinSchedule>>,
      <<Text(15, " minutes"), FALSE, SELECTED_COLUMNS>> }

\* the calls whose result the caller hands to bin_data again
AgainCalls ==
    { <<Text(15, " minutes"), TRUE,  OwnSchedule>>,
      <<Text(1, " hours"),    FALSE, OwnSchedule>>,
      <<Text(15, " minutes"), FALSE, MeanRules>> }

\* the columns of a wide table of the reference system
AllColumns == {"Dataset", "Time", "Act", "T", "Light", "Vbat"}

\* a table without its column col
Without(df, col) ==
    [i \in 1..Len(df) |-> [c \in (DOMAIN df[i]) \ {col} |-> df[i][c]]]

\* the rows of the tables that are run with the calls of EdgeCalls
FewRows ==
    { WideRow(<<1>>, Stamp(1), <<Num(-1), Num(3)>>, InstA),
      WideRow(<<2>>, StampText(135, 60), <<Missing, Num(-1)>>, InstB),
      WideRow(<<1>>, BadText, <<Num(3), Missing>>, InstA) }

FewTables == UNION {[1..n -> FewRows] : n \in 0..MaxRows}

\* wide rows with a cell that holds text: an activity value, a battery voltage
\* next to numeric cells, and an activity value of a row without a valid time
TextRows ==
    { WideRow(<<1>>, Stamp(1), <<Num(3), TextCell>>, InstA),
      WideRow(<<2>>, Stamp(1), <<Num(3), Missing>>,
              [T |-> Num(5), Light |-> Num(2), Vbat |-> TextCell]),
      WideRow(<<1>>, BadText, <<TextCell, Missing>>, InstA) }

\* the tables with such a row
TextTables ==
    {t \in UNION {[1..n -> FewRows \cup TextRows] : n \in 1..MaxRows} :
        \E i \in 1..Len(t) : t[i] \in TextRows}

\* the calls that are run on them: a schedule that reads Vbat, and one that
\* does not
TextCalls ==
    { <<Text(15, " minutes"), FALSE, SELECTED_COLUMNS>>,
      <<Text(15, " minutes"), TRUE,  OtherSchedule>> }

\* a table with one more column, of the name col and with cell in every row
WithColumn(df, col, cell) ==
    [i \in 1..Len(df) |->
        [c \in (DOMAIN df[i]) \cup {col} |-> IF c = col THEN cell ELSE df[i][c]]]

\* rows of a device one minute apart: their windows share a minute
OverlapRows ==
    { WideRow(<<1>>, Stamp(1), <<Num(-1), Num(3)>>, InstA),
      WideRow(<<1>>, Stamp(2), <<Num(3), Num(3)>>, InstB),
      WideRow(<<2>>, Stamp(2), <<Num(3), Num(-1)>>, InstA) }

OverlapTables == UNION {[1..n -> OverlapRows] : n \in 0..MaxRows}

\* the calls that are run on the tables of OverlapTables
OverlapCalls ==
    { <<Text(15, " minutes"), FALSE, OtherSchedule>>,
      <<Text(1, " hours"),    TRUE,  SELECTED_COLUMNS>> }

\* the runs: the table, its columns, the call, and whether the result is
\* binned again
Runs ==
    {<<t, AllColumns, c, FALSE>> : t \in Tables, c \in Calls}
        \cup {<<t, AllColumns, c, FALSE>> : t \in OverlapTables, c \in OverlapCalls}
        \cup {<<t, AllColumns, c, FALSE>> : t \in FewTables, c \in EdgeCalls}
        \cup {<<t, AllColumns, c, FALSE>> : t \in TextTables, c \in TextCalls}
        \cup {<<t, AllColumns, c, TRUE>> : t \in FewTables, c \in AgainCalls}
        \cup {<<WithColumn(t, "Humidity", Num(7)), AllColumns \cup {"Humidity"}, c, FALSE>> :
                    t \in FewTables, c \in {<<Text(15, " minutes"), TRUE, SELECTED_COLUMNS>>}}
        \cup {<<Without(t, "Time"), AllColumns \ {"Time"}, c, FALSE>> :
                    t \in FewTables, c \in {<<Text(15, " minutes"), TRUE, SELECTED_COLUMNS>>}}

\* no worker was started
NoWorker == [file_path |-> ""]

\* BinningPanel.__init__ and _build_ui: no file, the button disabled, the
\* progress bar hidden, the start / end controls enabled by _toggle_entries
PanelInit ==
    /\ binning_worker = NoWorker
    /\ live = 0
    /\ signals = <<>>
    /\ seen = 0
    /\ handled = 0
    /\ bin_file = ""
    /\ bounded_cb = FALSE
    /\ entries = TRUE
    /\ btn_bin = [enabled |-> FALSE, visible |-> TRUE]
    /\ bin_progress = FALSE
    /\ status_lbl = ""
    /\ written = {}
    /\ published = {}

Init ==
    /\ \E r \in Runs :
          /\ wide = r[1]
          /\ columns = r[2]
          /\ interval = r[3][1] /\ hook = r[3][2] /\ schedule = r[3][3]
          /\ again = r[4]
    /\ melted = <<>>
    /\ out = <<>>
    /\ rebinned = <<>>
    /\ msgs = <<>>
    /\ pc = "start"
    /\ err = ""
    /\ PanelInit

Next == melt_then_bin

Spec == Init /\ [][Next]_vars

-----------------------------------------------------------------------------
(* BinningWorker (src/bin/workers.py) *)

\* the paths a file dialog or the merge panel can hand to the panel
Paths == {"/a/x.csv", "/a/t.csv", "/b/y.csv", "/b/n.csv", "/b/none.csv"}

\* pd.read_csv raises for a path that is no readable file
Readable(path) == path \in {"/a/x.csv", "/a/t.csv", "/b/y.csv", "/b/n.csv"}

\* the table pd.read_csv returns: every timestamp is text
FileTable(path) ==
    IF path = "/a/x.csv"
    THEN << WideRow(<<1>>, StampText(0, 0), <<Num(-1), Num(3)>>, InstA),
            WideRow(<<1>>, StampText(1, 0), <<Num(3), Missing>>, InstB),
            WideRow(<<2>>, StampText(135, 60), <<Missing, Num(-1)>>, InstB),
            WideRow(<<2>>, BadText, <<Num(3), Num(3)>>, InstA) >>
    ELSE IF path = "/a/t.csv"
    THEN << WideRow(<<1>>, StampText(1, 0), <<Num(3), TextCell>>, InstA) >>
    ELSE IF path = "/b/y.csv"
    THEN << WideRow(<<1>>, BadText, <<Num(3), Missing>>, InstA) >>
    ELSE Without(<<WideRow(<<1>>, StampText(1, 0), <<Num(3), Missing>>, InstA)>>, "Time")

FileColumns(path) == IF path = "/b/n.csv" THEN AllColumns \ {"Time"} ELSE AllColumns

\* a start or end bound as the widgets hold it: the day of the QDateEdit
\* (counted from 1970-01-01), hour and minute of the QTimeEdit ("hh:mm", so the
\* hour is in 0..23), and the PM radio button
Bound(d, h, m, p) == [day |-> d, hour |-> h, minute |-> m, pm |-> p]

\* (hour % 12) + (12 if pm else 0)
Hour24(b) == (b.hour % 12) + (IF b.pm THEN 12 ELSE 0)

\* dt.datetime(year, month, day, hour, minute), in minutes from the epoch
BoundMinutes(b) == b.day * 1440 + Hour24(b) * 60 + b.minute

\* the trim with the end bound exclusive
Trim_EndExclusive(df, start_dt, end_dt) ==
    SelectSeq(df, LAMBDA r : r.Time.ok /\ r.Time.min >= start_dt /\ r.Time.min < end_dt)

\* df.loc[(df[TIME_COLUMN] >= start_dt) & (df[TIME_COLUMN] <= end_dt)]: a
\* comparison with NaT is False
Trim(df, start_dt, end_dt) ==
    SelectSeq(df, LAMBDA r : r.Time.ok /\ r.Time.min >= start_dt /\ r.Time.min <= end_dt)

\* BinningWorker.run up to the call of melt_then_bin: the status "Reading
\* Data...", read_csv, the times parsed, the rows trimmed unless
\* already_trimmed; an exception leaves the try block at once
run_read ==
    /\ pc = "read"
    /\ msgs' = Append(msgs, "Reading Data...")
    /\ LET w == binning_worker
       IN  IF ~Readable(w.file_path)
           THEN /\ pc' = "error"
                /\ err' = "FileNotFoundError"
                /\ UNCHANGED <<wide, columns>>
           ELSE IF TIME_COLUMN \notin FileColumns(w.file_path)
           THEN /\ pc' = "error"
                /\ err' = "KeyError"
                /\ wide' = FileTable(w.file_path)
                /\ columns' = FileColumns(w.file_path)
           ELSE /\ pc' = "start"
                /\ err' = ""
                /\ columns' = FileColumns(w.file_path)
                /\ wide' = IF w.already_trimmed
                           THEN ParseTimes(FileTable(w.file_path))
                           ELSE Trim(ParseTimes(FileTable(w.file_path)),
                                     BoundMinutes(w.start), BoundMinutes(w.end))
    /\ UNCHANGED <<interval, hook, schedule, again, melted, out, rebinned>>
    /\ UNCHANGED <<binning_worker, live, signals, seen, handled, bin_file, bounded_cb,
                   entries, btn_bin, bin_progress, status_lbl, written, published>>

\* self.finished.emit(binned_df), and run returns
run_finished ==
    /\ pc = "done"
    /\ binning_worker # NoWorker
    /\ signals' = Append(signals, [sig |-> "finished", table |-> out, text |-> "",
                                   after |-> Len(msgs)])
    /\ pc' = "ended"
    /\ live' = live - 1
    /\ UNCHANGED <<wide, columns, interval, hook, schedule, again, melted, out, rebinned,
                   msgs, err>>
    /\ UNCHANGED <<binning_worker, seen, handled, bin_file, bounded_cb, entries, btn_bin,
                   bin_progress, status_lbl, written, published>>

\* the except branch emitting finished after errored
run_errored_AndFinished ==
    /\ pc = "error"
    /\ binning_worker # NoWorker
    /\ signals' = signals \o << [sig |-> "errored", table |-> <<>>, text |-> err,
                                 after |-> Len(msgs)],
                                [sig |-> "finished", table |-> out, text |-> "",
                                 after |-> Len(msgs)] >>
    /\ pc' = "ended"
    /\ live' = live - 1
    /\ UNCHANGED <<wide, columns, interval, hook, schedule, again, melted, out, rebinned,
                   msgs, err>>
    /\ UNCHANGED <<binning_worker, seen, handled, bin_file, bounded_cb, entries, btn_bin,
                   bin_progress, status_lbl, written, published>>

\* except Exception as error: self.errored.emit(str(error)), and run returns
run_errored ==
    /\ pc = "error"
    /\ binning_worker # NoWorker
    /\ signals' = Append(signals, [sig |-> "errored", table |-> <<>>, text |-> err,
                                   after |-> Len(msgs)])
    /\ pc' = "ended"
    /\ live' = live - 1
    /\ UNCHANGED <<wide, columns, interval, hook, schedule, again, melted, out, rebinned,
                   msgs, err>>
    /\ UNCHANGED <<binning_worker, seen, handled, bin_file, bounded_cb, entries, btn_bin,
                   bin_progress, status_lbl, written, published>>

\* BinningWorker.run
run == run_read \/ run_finished \/ run_errored

-----------------------------------------------------------------------------
(* BinningPanel (src/bin/user_interface.py) *)

\* os.path.dirname, on the paths of the model
dirname(path) == IF path \in {"/a/x.csv", "/a/t.csv"} THEN "/a" ELSE "/b"

\* what the spin box and the unit buttons hold when Submit is pressed
Settings == { <<15, "minutes">>, <<1, "hours">> }

\* f"{self.bin_val.value()} {self.bin_unit.currentText()}"
IntervalOf(s) == Text(s[1], IF s[2] = "minutes" THEN " minutes" ELSE " hours")

\* os.path.join(export_dir, f"binned_{interval.replace(' ', '_')}.csv")
ExportPath(dir, text) ==
    [dir |-> dir,
     name |-> <<"binned_", text[1].n, "_",
                IF text[2].w = " minutes" THEN "minutes" ELSE "hours", ".csv">>]

\* what the start controls hold when Submit is pressed
Starts == { Bound(0, 0, 0, FALSE), Bound(0, 12, 1, FALSE), Bound(0, 13, 15, FALSE) }

\* what the end controls hold when Submit is pressed
Ends == { Bound(0, 0, 0, FALSE), Bound(0, 1, 15, FALSE), Bound(0, 23, 59, TRUE) }

\* _toggle_entries, run when the checkbox changes: the start / end controls
\* are enabled iff the checkbox is not checked
_toggle_entries ==
    /\ bounded_cb' = ~bounded_cb
    /\ entries' = ~bounded_cb'
    /\ UNCHANGED <<wide, columns, interval, hook, schedule, again, melted, out, rebinned,
                   msgs, pc, err>>
    /\ UNCHANGED <<binning_worker, live, signals, seen, handled, bin_file, btn_bin,
                   bin_progress, status_lbl, written, published>>

\* set_bin_file(path), the slot of MergePanel.merged_filepath
set_bin_file ==
    /\ \E path \in Paths :
          /\ bin_file' = path
          /\ btn_bin' = [btn_bin EXCEPT !.enabled = TRUE]
    /\ UNCHANGED <<wide, columns, interval, hook, schedule, again, melted, out, rebinned,
                   msgs, pc, err>>
    /\ UNCHANGED <<binning_worker, live, signals, seen, handled, bounded_cb, entries,
                   bin_progress, status_lbl, written, published>>

\* _bin_file_browse: the dialog returns a path, or "" when it is cancelled
_bin_file_browse ==
    /\ \E path \in Paths \cup {""} :
          IF path = ""
          THEN UNCHANGED <<bin_file, btn_bin>>
          ELSE /\ bin_file' = path
               /\ btn_bin' = [btn_bin EXCEPT !.enabled = TRUE]
    /\ UNCHANGED <<wide, columns, interval, hook, schedule, again, melted, out, rebinned,
                   msgs, pc, err>>
    /\ UNCHANGED <<binning_worker, live, signals, seen, handled, bounded_cb, entries,
                   bin_progress, status_lbl, written, published>>

\* _bin_start without btn_bin.hide()
_bin_start_ButtonShown ==
    /\ btn_bin.enabled /\ btn_bin.visible
    /\ IF bin_file = ""
       THEN UNCHANGED vars
       ELSE /\ btn_bin' = btn_bin
            /\ bin_progress' = TRUE
            /\ \E s \in Settings, b \in Starts, e \in Ends :
                  /\ interval' = IntervalOf(s)
                  /\ binning_worker' = [file_path |-> bin_file,
                                        interval |-> IntervalOf(s),
                                        already_trimmed |-> bounded_cb,
                                        start |-> b,
                                        end |-> e]
            /\ live' = live + 1
            /\ signals' = <<>>
            /\ seen' = 0
            /\ handled' = 0
            /\ pc' = "read"
            /\ wide' = <<>>
            /\ columns' = {}
            /\ melted' = <<>>
            /\ out' = <<>>
            /\ msgs' = <<>>
            /\ err' = ""
            /\ UNCHANGED <<hook, schedule, again, rebinned>>
            /\ UNCHANGED <<bin_file, bounded_cb, entries, status_lbl, written, published>>

\* _bin_start, the slot of the Submit button, which can be pressed only while
\* it is enabled and visible: a warning when no file is chosen, else the button
\* hidden, the progress bar shown and a worker created and started
_bin_start ==
    /\ btn_bin.enabled /\ btn_bin.visible
    /\ IF bin_file = ""
       THEN UNCHANGED vars
       ELSE /\ btn_bin' = [btn_bin EXCEPT !.visible = FALSE]
            /\ bin_progress' = TRUE
            /\ \E s \in Settings, b \in Starts, e \in Ends :
                  /\ interval' = IntervalOf(s)
                  /\ binning_worker' = [file_path |-> bin_file,
                                        interval |-> IntervalOf(s),
                                        already_trimmed |-> bounded_cb,
                                        start |-> b,
                                        end |-> e]
            /\ live' = live + 1
            /\ signals' = <<>>
            /\ seen' = 0
            /\ handled' = 0
            /\ pc' = "read"
            /\ wide' = <<>>
            /\ columns' = {}
            /\ melted' = <<>>
            /\ out' = <<>>
            /\ msgs' = <<>>
            /\ err' = ""
            /\ UNCHANGED <<hook, schedule, again, rebinned>>
            /\ UNCHANGED <<bin_file, bounded_cb, entries, status_lbl, written, published>>

\* _on_status_update(msg), the slot of the worker's status signal: the signals
\* of the worker are queued, and delivered in the order they were emitted
_on_status_update ==
    /\ seen < Len(msgs)
    /\ status_lbl' = msgs[seen + 1]
    /\ seen' = seen + 1
    /\ UNCHANGED <<wide, columns, interval, hook, schedule, again, melted, out, rebinned,
                   msgs, pc, err>>
    /\ UNCHANGED <<binning_worker, live, signals, handled, bin_file, bounded_cb, entries,
                   btn_bin, bin_progress, written, published>>

\* the next finished / errored signal is due: everything emitted before it
\* was delivered
Due(sig) ==
    /\ handled < Len(signals)
    /\ signals[handled + 1].sig = sig
    /\ seen >= signals[handled + 1].after

\* _bin_done(out_df, interval), the slot of finished: the controls restored,
\* then the table written next to self.bin_file and the path emitted, or
\* nothing when makedirs or to_csv raises
_bin_done ==
    /\ Due("finished")
    /\ handled' = handled + 1
    /\ bin_progress' = FALSE
    /\ btn_bin' = [btn_bin EXCEPT !.visible = TRUE]
    /\ status_lbl' = ""
    /\ LET out_path == ExportPath(dirname(bin_file), binning_worker.interval)
       IN  \/ /\ written' = written \cup {out_path}
              /\ published' = published \cup {out_path}
           \/ UNCHANGED <<written, published>>
    /\ UNCHANGED <<wide, columns, interval, hook, schedule, again, melted, out, rebinned,
                   msgs, pc, err>>
    /\ UNCHANGED <<binning_worker, live, signals, seen, bin_file, bounded_cb, entries>>

\* _bin_error(msg), the slot of errored
_bin_error ==
    /\ Due("errored")
    /\ handled' = handled + 1
    /\ bin_progress' = FALSE
    /\ btn_bin' = [btn_bin EXCEPT !.visible = TRUE]
    /\ status_lbl' = ""
    /\ UNCHANGED <<wide, columns, interval, hook, schedule, again, melted, out, rebinned,
                   msgs, pc, err>>
    /\ UNCHANGED <<binning_worker, live, signals, seen, bin_file, bounded_cb, entries,
                   written, published>>

\* the panel as constructed, no worker started
InitPanel ==
    /\ wide = <<>>
    /\ columns = {}
    /\ interval = Text(15, " minutes")
    /\ hook = TRUE
    /\ schedule = SELECTED_COLUMNS
    /\ again = FALSE
    /\ melted = <<>>
    /\ out = <<>>
    /\ rebinned = <<>>
    /\ msgs = <<>>
    /\ pc = "idle"
    /\ err = ""
    /\ PanelInit

\* the events of the panel, and the steps of its worker: the spin box gives a
\* positive number and a unit, so bin_data never rejects the interval
NextPanel ==
    \/ _toggle_entries
    \/ set_bin_file
    \/ _bin_file_browse
    \/ _bin_start
    \/ run_read
    \/ melt_activity_data
    \/ bin_data_type_error
    \/ bin_data_empty
    \/ bin_data
    \/ run_finished
    \/ run_errored
    \/ _on_status_update
    \/ _bin_done
    \/ _bin_error

SpecPanel == InitPanel /\ [][NextPanel]_vars

----------------------------------------------------------------------------
(* Properties of the Reshaper *)

\* the long row the claim C1 expects of slot i of the wide row j
ExpectedLong(j, i) ==
    [Dataset |-> wide[j].Dataset,
     Time    |-> IF wide[j].Time.ok THEN Stamp(wide[j].Time.min - i) ELSE NaT,
     Act     |-> wide[j].Act[i + 1],
     T       |-> wide[j].T,
     Light   |-> wide[j].Light,
     Vbat    |-> wide[j].Vbat]

\* the slots (wide row, offset) that hold an activity value, of rows with a device
FilledSlots ==
    {p \in (1..Len(wide)) \X (0..(NumActCols - 1)) :
        wide[p[1]].Dataset # Missing /\ wide[p[1]].Act[p[2] + 1] # Missing}

\* C1: the long table holds, as a multiset, exactly one row (d, T - i minutes,
\* a_i) for each slot i of each wide row (device d, timestamp T) whose a_i is
\* not missing, and no other row.
C1_MeltEmitsOneRowPerFilledSlot ==
    pc = "melted" =>
        /\ \A n \in 1..Len(melted) :
              \E p \in FilledSlots : ExpectedLong(p[1], p[2]) = melted[n]
        /\ \A p \in FilledSlots :
              Cardinality({n \in 1..Len(melted) : melted[n] = ExpectedLong(p[1], p[2])})
                = Cardinality({q \in FilledSlots :
                                 ExpectedLong(q[1], q[2]) = ExpectedLong(p[1], p[2])})

\* a wide row with one slot missing and one filled has been reshaped
C1_Witness ==
    /\ pc = "melted"
    /\ \E j \in 1..Len(wide) :
          /\ wide[j].Dataset # Missing
          /\ wide[j].Time.ok
          /\ wide[j].Act[1] = Missing
          /\ wide[j].Act[2] # Missing
          /\ \E n \in 1..Len(melted) : melted[n] = ExpectedLong(j, 1)
    /\ Len(melted) >= 2

\* C2: the long table is ascending by device first, so the rows of a device
\* are contiguous, and the valid derived times of one device never decrease.
C2_MeltSortedByDeviceThenTime ==
    pc = "melted" =>
        \A n \in 1..Len(melted) : \A m \in (n + 1)..Len(melted) :
            /\ melted[n].Dataset[1] <= melted[m].Dataset[1]
            /\ (melted[n].Dataset = melted[m].Dataset
                  /\ melted[n].Time.ok /\ melted[m].Time.ok)
                    => melted[n].Time.min <= melted[m].Time.min

\* two devices, given in descending order and later time first, were reshaped
C2_Witness ==
    /\ pc = "melted"
    /\ Len(wide) = 2
    /\ wide[1].Dataset # Missing /\ wide[2].Dataset # Missing
    /\ wide[1].Dataset[1] > wide[2].Dataset[1]
    /\ \E n, m \in 1..Len(melted) :
          /\ n < m
          /\ melted[n].Dataset[1] < melted[m].Dataset[1]
          /\ melted[n].Time.ok /\ melted[m].Time.ok
          /\ melted[n].Time.min > melted[m].Time.min
    /\ \E n, m \in 1..Len(melted) :
          /\ melted[n].Dataset = melted[m].Dataset
          /\ melted[n].Time.ok /\ melted[m].Time.ok
          /\ melted[n].Time.min < melted[m].Time.min

----------------------------------------------------------------------------
(* Properties of the Binner *)

OfDevice(df, d) == SelectSeq(df, LAMBDA r : r.Dataset = <<d>>)

\* the binned table of the wide rows of device d alone, under the same call
AloneBinned(d) ==
    LET long == MeltResult(OfDevice(wide, d))
    IN  IF long = <<>> THEN <<>>
        ELSE BinResult(WithBin(long, BinWidth(interval)), schedule)

\* C3: the binned rows of device d are those the pipeline computes from the
\* wide rows of d alone: the rows of every other device can be added, removed
\* or changed without changing a binned row of d.
C3_DeviceIsolation ==
    pc = "done" =>
        \A d \in Devices : OfDevice(out, d) = AloneBinned(d)

\* two devices have a binned row for the same bin, with different values
C3_Witness ==
    /\ pc = "done"
    /\ \E a, b \in 1..Len(out) :
          /\ out[a].Dataset # out[b].Dataset
          /\ out[a].Time = out[b].Time
          /\ out[a].vals # out[b].vals
    /\ \E n, m \in 1..Len(melted) :
          /\ melted[n].Dataset # melted[m].Dataset
          /\ melted[n].Time.ok
          /\ melted[n].Time = melted[m].Time

\* the interval is a whole number n >= 1 followed by its unit
Plain == Len(interval) = 2 /\ interval[1].n >= 1

\* the width in minutes the call asks for, read off the text of the interval
AskedWidth ==
    interval[1].n * (IF interval[2].w = " days" THEN 1440
                     ELSE IF interval[2].w = " hours" THEN 60
                     ELSE 1)

\* the slots whose long row reached the Binner: filled, with a device, and the
\* bin of each: the greatest multiple of the width at or below T - i
BinOfSlot(p) ==
    LET t == wide[p[1]].Time.min - p[2]
    IN  t - (t % AskedWidth)

TimedSlots == {p \in FilledSlots : wide[p[1]].Time.ok}

SlotsOf(d, b) ==
    {p \in TimedSlots : wide[p[1]].Dataset = d /\ BinOfSlot(p) = b.min}

\* the value a slot brings to a source column: its own activity value, or the
\* instantaneous reading of its wide row
SlotCell(p, col) == IF col = "Act" THEN wide[p[1]].Act[p[2] + 1] ELSE wide[p[1]][col]

\* the non-missing cells of the slots of a (device, bin) pair in the columns cols
CellsOf(d, b, cols) ==
    {x \in SlotsOf(d, b) \X {cols[c] : c \in 1..Len(cols)} : SlotCell(x[1], x[2]) # Missing}

\* the sum of a set of cells (the inputs are whole numbers)
RECURSIVE SumCells(_)
SumCells(S) ==
    IF S = {} THEN 0
    ELSE LET x == CHOOSE y \in S : TRUE
         IN  SlotCell(x[1], x[2])[1] + SumCells(S \ {x})

\* C4: no row of the long table has a missing activity value, and a slot whose
\* activity value is missing counts in no aggregate: a bin exists only where a
\* filled slot falls, and the sum of T over a bin counts the temperature of a
\* wide row once per filled slot of that row in the bin, never for a missing one.
C4_MissingActivityDropped ==
    /\ pc \in {"melted", "done"} =>
          \A n \in 1..Len(melted) : melted[n].Act # Missing
    /\ pc = "done" /\ Plain =>
          \A k \in 1..Len(out) :
              /\ SlotsOf(out[k].Dataset, out[k].Time) # {}
              /\ schedule = OtherSchedule =>
                    LET withT == CellsOf(out[k].Dataset, out[k].Time, <<"T">>)
                    IN  out[k].vals[1].val =
                            IF withT = {} THEN Missing ELSE Num(SumCells(withT))

\* a wide row with a temperature, one slot missing and one filled, was binned
C4_Witness ==
    /\ pc = "done"
    /\ schedule = OtherSchedule
    /\ \E j \in 1..Len(wide) :
          /\ wide[j].Dataset # Missing /\ wide[j].Time.ok
          /\ wide[j].T # Missing
          /\ wide[j].Act[1] = Missing /\ wide[j].Act[2] # Missing
          /\ \E k \in 1..Len(out) :
                /\ out[k].Dataset = wide[j].Dataset
                /\ out[k].Time = Stamp(BinOfSlot(<<j, 1>>))
                /\ out[k].vals[1].val = Num(5)

\* C5: for an interval of n units the bin of a long row is the greatest
\* multiple of the interval, counted from the epoch, that is at or below its
\* derived time; a time on a boundary is its own bin.
C5_BinIsGreatestMultipleBelow ==
    pc = "done" /\ Plain =>
        \A n \in 1..Len(melted) :
            melted[n].Time.ok =>
                /\ melted[n].Bin.ok
                /\ melted[n].Bin.min % AskedWidth = 0
                /\ melted[n].Bin.min <= melted[n].Time.min
                /\ melted[n].Time.min < melted[n].Bin.min + AskedWidth

\* with "15 minutes": 01:14 went to 01:00, 01:15 to 01:15, and a time before
\* the epoch went down to the boundary below it
C5_Witness ==
    /\ pc = "done"
    /\ interval = <<Digits(15), Word(" minutes")>>
    /\ \E n \in 1..Len(melted) : melted[n].Time = Stamp(74) /\ melted[n].Bin = Stamp(60)
    /\ \E n \in 1..Len(melted) : melted[n].Time = Stamp(75) /\ melted[n].Bin = Stamp(75)
    /\ \E n \in 1..Len(melted) : melted[n].Time = Stamp(-1) /\ melted[n].Bin = Stamp(-15)

\* C6: the binned table has exactly one row for each distinct (device, bin)
\* pair among the long rows with a valid time, and no row for any other pair.
C6_OneRowPerDeviceBin ==
    pc = "done" =>
        /\ \A n \in 1..Len(melted) :
              melted[n].Bin.ok =>
                  Cardinality({k \in 1..Len(out) :
                                  /\ out[k].Dataset = melted[n].Dataset
                                  /\ out[k].Time = melted[n].Bin}) = 1
        /\ \A k \in 1..Len(out) :
              /\ out[k].Time.ok
              /\ \E n \in 1..Len(melted) :
                    /\ melted[n].Dataset = out[k].Dataset
                    /\ melted[n].Bin = out[k].Time

\* several long rows share a pair, and several pairs were binned
C6_Witness ==
    /\ pc = "done"
    /\ Len(out) >= 3
    /\ \E n, m \in 1..Len(melted) :
          /\ n # m
          /\ melted[n].Bin.ok
          /\ melted[n].Dataset = melted[m].Dataset
          /\ melted[n].Bin = melted[m].Bin

\* no two rules of the schedule have the same name
DistinctNames ==
    \A r, q \in 1..Len(schedule) : r # q => schedule[r].name # schedule[q].name

\* the cells a rule pools for a binned row
RuleCells(k, r) == CellsOf(out[k].Dataset, out[k].Time, schedule[r].columns)

\* the rules of the schedule whose reducer is one of the names in aggs
RulesWith(aggs) ==
    {r \in 1..Len(schedule) :
        "summarize" \in DOMAIN schedule[r] /\ schedule[r].summarize \in aggs}

\* C7: for a rule with reducer mean, sum, max or min and a (device, bin) group
\* with a non-missing value, the output is the reducer applied to all the
\* non-missing values of all the source columns of the rule over the group.
C7_ReducerOverPooledValues ==
    pc = "done" /\ Plain =>
        \A k \in 1..Len(out) : \A r \in RulesWith({"mean", "sum", "max", "min"}) :
            LET cells == RuleCells(k, r)
                v == out[k].vals[r].val
                agg == schedule[r].summarize
            IN  /\ DistinctNames => out[k].vals[r].name = schedule[r].name
                /\ cells # {} =>
                    /\ v # Missing
                    /\ v[2] > 0
                    /\ agg = "sum" => v = Num(SumCells(cells))
                    /\ agg = "mean" => v[1] * Cardinality(cells) = SumCells(cells) * v[2]
                    /\ agg = "max" =>
                          /\ \E x \in cells : v = SlotCell(x[1], x[2])
                          /\ \A x \in cells : SlotCell(x[1], x[2])[1] <= v[1]
                    /\ agg = "min" =>
                          /\ \E x \in cells : v = SlotCell(x[1], x[2])
                          /\ \A x \in cells : SlotCell(x[1], x[2])[1] >= v[1]

\* a group of several rows was reduced: the maximum over Act and T came from
\* T, the minimum over Light and T from Light, and the mean is no whole number
C7_Witness ==
    /\ pc = "done"
    /\ schedule = OtherSchedule
    /\ \E k \in 1..Len(out) :
          /\ Cardinality(SlotsOf(out[k].Dataset, out[k].Time)) >= 2
          /\ out[k].vals[1].val = Num(10)
          /\ out[k].vals[2].val = Num(5)
          /\ out[k].vals[4].val = Num(2)
          /\ out[k].vals[5].val = <<7, 2>>

\* the (binned row, rule) pairs, for rules with a reducer in aggs, whose group
\* holds no non-missing value in the source columns of the rule
EmptyGroups(aggs) ==
    {x \in (1..Len(out)) \X RulesWith(aggs) : RuleCells(x[1], x[2]) = {}}

C9_EmptyGroupIsMissing ==
    pc = "done" /\ Plain =>
        \A x \in EmptyGroups({"mean", "max", "min", "act_percent"}) :
            out[x[1]].vals[x[2]].val = Missing

\* each of the four reducers met an empty group, in a row where another rule
\* has a value
C9_Witness ==
    /\ pc = "done"
    /\ \A a \in {"mean", "max", "min", "act_percent"} : EmptyGroups({a}) # {}
    /\ \E x \in EmptyGroups({"mean"}) :
          \E r \in 1..Len(schedule) : out[x[1]].vals[r].val # Missing

\* C10: the percent reducer returns mean * 50 + 50 of the non-missing values,
\* unclamped: 0 for a mean of -1, 100 for a mean of 1, above 100 for a mean
\* above 1 and below 0 for a mean below -1.
C10_PercentIsAffineUnclamped ==
    pc = "done" /\ Plain =>
        \A k \in 1..Len(out) : \A r \in RulesWith({"act_percent"}) :
            LET cells == RuleCells(k, r)
                n == Cardinality(cells)
                s == SumCells(cells)
                v == out[k].vals[r].val
            IN  cells # {} =>
                    /\ v # Missing
                    /\ v[2] > 0
                    /\ v[1] * n = (50 * s + 50 * n) * v[2]
                    /\ s = -n => v = Num(0)
                    /\ s = n => v = Num(100)
                    /\ s > n => v[1] > 100 * v[2]
                    /\ s < -n => v[1] < 0

\* one table holds a mean of -1, a mean of 1 and a mean of 3, binned to 0, 100
\* and 200 percent
C10_Witness ==
    /\ pc = "done"
    /\ schedule = SELECTED_COLUMNS
    /\ \E k \in 1..Len(out) : out[k].vals[1].val = Num(-1) /\ out[k].vals[2].val = Num(0)
    /\ \E k \in 1..Len(out) : out[k].vals[1].val = Num(1) /\ out[k].vals[2].val = Num(100)
    /\ \E k \in 1..Len(out) : out[k].vals[1].val = Num(3) /\ out[k].vals[2].val = Num(200)

\* a mean below -1 was binned to a percentage below 0
C10_WitnessBelow ==
    /\ pc = "done"
    /\ schedule = SELECTED_COLUMNS
    /\ \E k \in 1..Len(out) : out[k].vals[1].val = Num(-3) /\ out[k].vals[2].val = Num(-100)

-----------------------------------------------------------------------------
(* Properties of the error handling and of the frame of the two stages *)

\* the reducer names agg_func tells apart
Recognized == {"mean", "sum", "max", "min", "act_percent"}

\* the rules of the schedule whose reducer name is absent or not recognized
LooseRules == (1..Len(schedule)) \ RulesWith(Recognized)

\* C11: a rule whose reducer name is absent or not one of the recognized
\* names is evaluated as mean: its value is the mean of the non-missing cells
\* its group pools (missing for none), the same value a rule with the reducer
\* mean over the same columns gets, and the run ends without an error.
C11_UnknownReducerIsMean ==
    /\ pc = "done" /\ Plain =>
          \A k \in 1..Len(out) : \A r \in LooseRules :
              LET cells == RuleCells(k, r)
                  v == out[k].vals[r].val
              IN  /\ IF cells = {} THEN v = Missing
                     ELSE /\ v # Missing
                          /\ v[2] > 0
                          /\ v[1] * Cardinality(cells) = SumCells(cells) * v[2]
                  /\ \A q \in RulesWith({"mean"}) :
                        schedule[q].columns = schedule[r].columns =>
                            out[k].vals[q].val = v
    /\ pc = "error" /\ LooseRules # {} => err \in {"KeyError", "ValueError"}

\* a rule named "median" and a rule without a reducer were evaluated over a
\* group of two values whose mean is neither of them
C11_Witness ==
    /\ pc = "done"
    /\ schedule = LooseSchedule
    /\ \E k \in 1..Len(out) :
          /\ out[k].vals[1].val = Num(1)
          /\ out[k].vals[2].val = <<7, 2>>

\* the interval begins with a number
LeadingNumber == interval # <<>> /\ interval[1].n >= 0

\* melt_activity_data has failed: the one stage that ends in KeyError
MeltFailed == pc = "error" /\ err = "KeyError"

\* bin_data was called and has ended
Binned == pc \in {"done", "error"} /\ ~MeltFailed

\* C12 as stated: for an interval that does not begin with a number, as
\* "abc minutes" or "abc 5 minutes", bin_data ends in the error its check of
\* the interval raises (a ValueError in the code) and returns no table.
C12_RejectsNoLeadingNumber ==
    Binned /\ ~LeadingNumber => pc = "error" /\ err = "ValueError" /\ out = <<>>

\* the magnitude of the interval is zero, or a number with a minus sign
NonPositive ==
    \/ LeadingNumber /\ interval[1].n = 0
    \/ Len(interval) >= 2 /\ interval[1] = Word("-") /\ interval[2].n >= 0

\* C13 as stated: for an interval whose magnitude is zero or negative, as
\* "0 hours" or "-5 days", bin_data ends in an error (of whatever type) and
\* returns no table; "-5 days" is not binned as "5 days".
C13_RejectsNonPositive ==
    Binned /\ NonPositive => pc = "error" /\ out = <<>>

\* C14 as stated: when two rules of the schedule have the same name, bin_data
\* ends in an error before it aggregates, and returns no table: no column is
\* overwritten or renamed.
C14_DuplicateNameIsAnError ==
    Binned /\ ~DistinctNames => pc = "error" /\ out = <<>>

\* C15 as stated: neither stage mutates its input: a step of
\* melt_activity_data leaves the wide table as it was, and a step of bin_data
\* leaves the long table it was given as it was, with the same columns and the
\* same cells.
C15_StagesLeaveInputAlone ==
    [][/\ pc = "start" => wide' = wide
       /\ pc = "melted" => melted' = melted]_vars

\* a wide row with the text cells of its activity window and of its
\* instantaneous readings read as missing
AsMissing(c) == IF c = TextCell THEN Missing ELSE c

Cleaned(df) ==
    [i \in 1..Len(df) |->
        [df[i] EXCEPT !.Act = [a \in 1..Len(@) |-> AsMissing(@[a])],
                      !.T = AsMissing(@), !.Light = AsMissing(@), !.Vbat = AsMissing(@)]]

HasText(df) == Cleaned(df) # df

\* the long table of a wide table whose times are parsed, with its bins
LongOf(df) == WithBin(MeltResult(df), BinWidth(interval))

\* C16 as stated: text in place of a number never makes the pipeline fail:
\* for a wide table with such cells whose other values fill a bin, the
\* pipeline returns the binned table of the same wide table with those cells
\* missing.
C16_MalformedValuesAreMissing ==
    /\ pc \in {"done", "error"}
    /\ Plain
    /\ TIME_COLUMN \in columns
    /\ HasText(wide)
    /\ BinKeys(LongOf(Cleaned(wide))) # {}
    => pc = "done" /\ out = BinResult(LongOf(Cleaned(wide)), schedule)

\* the filled slots of the wide rows whose timestamp did not parse
UntimedSlots == {p \in FilledSlots : ~wide[p[1]].Time.ok}

\* C17: a wide row whose timestamp does not parse raises no error in
\* melt_activity_data: the long table holds one row with an invalid time for
\* each of its filled slots; bin_data is what leaves these rows out: no row of
\* the binned table has an invalid time, and the binned table is the one of
\* the long rows with a valid time.
C17_UnparsedTimeReachesBinner ==
    TIME_COLUMN \in columns /\ pc # "start" =>
        /\ UntimedSlots # {} => melted # <<>>
        /\ melted # <<>> =>
              \A d \in Devices :
                  Cardinality({n \in 1..Len(melted) :
                                  melted[n].Dataset = <<d>> /\ ~melted[n].Time.ok})
                      = Cardinality({p \in UntimedSlots : wide[p[1]].Dataset = <<d>>})
        /\ pc = "done" =>
              /\ \A k \in 1..Len(out) : out[k].Time.ok
              /\ LET timed == SelectSeq(melted, LAMBDA r : r.Time.ok)
                 IN  out = IF timed = <<>> THEN <<>> ELSE BinResult(timed, schedule)

\* a row with an unparsed timestamp and two filled slots gave two long rows
\* with an invalid time, and the binned table has the bin of another row only
C17_Witness ==
    /\ pc = "done"
    /\ \E j \in 1..Len(wide) :
          /\ ~wide[j].Time.ok
          /\ <<j, 0>> \in UntimedSlots /\ <<j, 1>> \in UntimedSlots
    /\ Cardinality({n \in 1..Len(melted) : ~melted[n].Time.ok}) = 2
    /\ Len(out) = 1

Returned(table) == [pc |-> "done", err |-> "", out |-> table]

Raised(e) == [pc |-> "error", err |-> e, out |-> <<>>]

\* the outcomes of the pipeline as a function of the wide table, the interval
\* and the schedule alone (several where the pandas version decides)
OutcomesOf(df) ==
    IF TIME_COLUMN \notin columns THEN {Raised("KeyError")}
    ELSE IF MeltedRows(ParseTimes(df)) = <<>> THEN {Raised("KeyError")}
    ELSE IF SearchDigits(interval) = 0 THEN {Raised("ValueError")}
    ELSE LET long == LongOf(ParseTimes(df))
             object == ObjectColumns(long, schedule) # {}
         IN  (IF BinWidth(interval) = 0 THEN {Raised("ZeroDivisionError")} ELSE {})
             \cup (IF BinKeys(long) = {}
                   THEN {Returned(<<>>), Raised("ValueError")}
                            \cup (IF object THEN {Raised("TypeError")} ELSE {})
                   ELSE IF object THEN {Raised("TypeError")}
                   ELSE {Returned(BinResult(long, schedule))})

\* C19: the binned table, or the error, that melt_then_bin ends with is
\* determined by the wide table, the interval and the schedule: a call with a
\* hook and a call without one end the same way, and a call without a hook
\* sends no message.
C19_HookDoesNotChangeResult ==
    /\ pc \in {"done", "error"} =>
          [pc |-> pc, err |-> err, out |-> out] \in OutcomesOf(wide)
    /\ ~hook => msgs = <<>>
    /\ hook /\ pc # "start" => msgs # <<>>

\* a wide table of two devices, as melt_activity_data leaves it
HookTable ==
    << WideRow(<<1>>, Stamp(1), <<Num(-1), Num(3)>>, InstA),
       WideRow(<<2>>, Stamp(75), <<Missing, Num(-1)>>, InstB) >>

\* the call on that table with "15 minutes" and the schedule of the
\* configuration has returned its two bins
HookTableBinned ==
    /\ pc = "done"
    /\ wide = HookTable
    /\ interval = Text(15, " minutes")
    /\ schedule = SELECTED_COLUMNS
    /\ Len(out) = 2
    /\ out = BinResult(LongOf(HookTable), SELECTED_COLUMNS)

\* the call without a hook returned that table and sent no message
C19_Witness == HookTableBinned /\ ~hook /\ msgs = <<>>

\* the call with a hook returned the same table
C19_WitnessHook ==
    HookTableBinned /\ hook /\ msgs = <<"Melting data...", "Binning data...">>

\* every rule of the schedule has the reducer mean
AllMean == RulesWith({"mean"}) = 1..Len(schedule)

\* every rule of the schedule reads one column, the one of its own name
OwnColumns == \A r \in 1..Len(schedule) : schedule[r].columns = <<schedule[r].name>>

\* the rows bin_data returned the first time (out, without the column "Bin"
\* the second call added to it)
FirstBinned ==
    [k \in 1..Len(out) |->
        [Dataset |-> out[k].Dataset, Time |-> out[k].Time, vals |-> out[k].vals]]

\* C20 as stated: binning a binned table again at the same interval, with
\* mean reducers, succeeds and reproduces the same rows with the same values.
C20_RebinReproduces ==
    pc = "rebinned" /\ out # <<>> /\ AllMean => err = "" /\ rebinned = FirstBinned

\* C20, amended: under a schedule of mean rules that each read the column of
\* their own name, binning a binned table again at the same interval succeeds
\* and reproduces the same rows with the same values (a missing value stays
\* missing); under a schedule with a source column the binned table does not
\* have, the second call raises KeyError and returns no table.
C20_RebinReproducesOwnColumns ==
    pc = "rebinned" /\ out # <<>> =>
        /\ AllMean /\ OwnColumns => err = "" /\ rebinned = FirstBinned
        /\ (\E r \in 1..Len(schedule) :
                \A q \in 1..Len(schedule) : schedule[r].columns[1] # schedule[q].name)
              => err = "KeyError" /\ rebinned = <<>>

\* a table of two bins, one of them the mean 1 of two values and one with a
\* missing temperature, was binned again and came back the same
C20_Witness ==
    /\ pc = "rebinned"
    /\ schedule = OwnSchedule
    /\ err = ""
    /\ Len(rebinned) = 2
    /\ rebinned = FirstBinned
    /\ \E k \in 1..Len(rebinned) : rebinned[k].vals[1].val = Num(1)
    /\ \E k \in 1..Len(rebinned) : rebinned[k].vals[2].val = Missing

\* under the mean rules of the configuration the second call failed
C20_WitnessKeyError ==
    /\ pc = "rebinned"
    /\ schedule = MeanRules
    /\ out # <<>>
    /\ err = "KeyError"

-----------------------------------------------------------------------------
(* Properties of the schedule, the carried fields and the hook *)

\* the exchange of the rules at the positions a and b
Exchange(n, a, b) == [i \in 1..n |-> IF i = a THEN b ELSE IF i = b THEN a ELSE i]

\* the orderings of n rules that are compared: every bijection of 1..n for a
\* schedule of up to four rules; for a longer one the exchange of the first
\* two rules and the rotation by one place (every ordering is a sequence of
\* these two)
Orderings(n) ==
    IF n <= 4
    THEN {p \in [1..n -> 1..n] : \A i, j \in 1..n : i # j => p[i] # p[j]}
    ELSE {Exchange(n, 1, 2), [i \in 1..n |-> (i % n) + 1]}

\* the schedule with its rules in the order p
Reordered(p) == [i \in 1..Len(schedule) |-> schedule[p[i]]]

\* the binned table with the columns of the rules in the order p, the names
\* left out where two rules share one
Moved(table, p) ==
    [k \in 1..Len(table) |->
        [Dataset |-> table[k].Dataset,
         Time    |-> table[k].Time,
         vals    |-> [i \in 1..Len(schedule) |->
                        IF DistinctNames
                        THEN table[k].vals[p[i]]
                        ELSE [val |-> table[k].vals[p[i]].val]]]]

\* C21: under every ordering of the rules of the schedule the binned table
\* has the same rows, one per (device, bin) pair in the same order, and the
\* value of each rule is the same; only the position of its column changes
\* (and its name is the rule's, where no two rules share a name).
C21_RuleOrderChangesColumnsOnly ==
    pc = "done" /\ out # <<>> =>
        \A p \in Orderings(Len(schedule)) :
            Moved(BinResult(melted, Reordered(p)), Exchange(Len(schedule), 1, 1))
                = Moved(out, p)

\* a table of two bins was returned under a schedule of six rules whose first
\* rule has no value in one of the bins while another rule has one
C21_Witness ==
    /\ pc = "done"
    /\ schedule = OtherSchedule
    /\ Len(out) >= 2
    /\ \E k \in 1..Len(out) :
          out[k].vals[1].val = Missing /\ out[k].vals[2].val # Missing
    /\ \E k \in 1..Len(out) : out[k].vals[1].val # Missing

\* the columns of the wide table that hold instantaneous readings
InstantColumns == columns \ {DELINEATING_COL, TIME_COLUMN, "Act"}

\* C22 as stated: every instantaneous column of the wide table, whatever its
\* name, is a column of the long table, and each long row holds in it the
\* value of a wide row of its device.
C22_EveryFieldCarried ==
    melted # <<>> =>
        \A n \in 1..Len(melted) : \A col \in InstantColumns :
            /\ col \in DOMAIN melted[n]
            /\ \E j \in 1..Len(wide) :
                  /\ wide[j].Dataset = melted[n].Dataset
                  /\ wide[j][col] = melted[n][col]

\* the long rows of the (device, bin) pair of the long row n
PairRows(n) ==
    SelectSeq(melted, LAMBDA r : r.Bin.ok /\ r.Dataset = melted[n].Dataset
                                          /\ r.Bin = melted[n].Bin)

\* every cell of the columns cols is missing in the rows
AllMissing(rows, cols) ==
    \A i \in 1..Len(rows) : \A c \in 1..Len(cols) : rows[i][cols[c]] = Missing

\* C23: a (device, bin) pair with a long row has its row in the binned table
\* also when every source value of the first rule is missing for it: the row
\* holds missing for the first rule and, for every other rule, the value the
\* rule computes over the rows of the pair.
C23_PairKeptWhenFirstRuleEmpty ==
    pc = "done" =>
        \A n \in 1..Len(melted) :
            melted[n].Bin.ok /\ AllMissing(PairRows(n), schedule[1].columns) =>
                \E k \in 1..Len(out) :
                    /\ out[k].Dataset = melted[n].Dataset
                    /\ out[k].Time = melted[n].Bin
                    /\ out[k].vals[1].val = Missing
                    /\ \A r \in 2..Len(schedule) :
                          /\ out[k].vals[r].val =
                                agg_func(Get(schedule[r], "summarize", "mean"),
                                         schedule[r].columns, PairRows(n))
                          /\ ~AllMissing(PairRows(n), schedule[r].columns) =>
                                out[k].vals[r].val # Missing

\* a pair without a temperature has its row: no sum of T, a maximum of 3 over
\* Act and T, and a percent of T that is missing as well
C23_Witness ==
    /\ pc = "done"
    /\ schedule = OtherSchedule
    /\ \E k \in 1..Len(out) :
          /\ out[k].vals[1].val = Missing
          /\ out[k].vals[2].val = Num(3)
          /\ out[k].vals[6].val = Missing

\* the bin of the time t (in minutes from the epoch) for the asked width
BinStart(t) == t - (t % AskedWidth)

\* C24: the bin of a long row is a function of its time alone, the same for
\* every row with that time whatever its device, its position or the other
\* rows; it is monotonic (t1 <= t2 gives bin(t1) <= bin(t2)) and aligned
\* (bin(t) <= t < bin(t) + interval).
C24_BinIsMonotonicFunctionOfTime ==
    pc = "done" /\ Plain =>
        \A n \in 1..Len(melted) :
            melted[n].Time.ok =>
                /\ melted[n].Bin = Stamp(BinStart(melted[n].Time.min))
                /\ \A m \in 1..Len(melted) :
                      melted[m].Time.ok /\ melted[n].Time.min <= melted[m].Time.min
                          => /\ melted[n].Bin.min <= melted[m].Bin.min
                             /\ melted[n].Bin.min <= melted[m].Time.min
                             /\ melted[m].Time.min < melted[m].Bin.min + AskedWidth

\* two rows of different times share a bin, and a later row has a later bin
C24_Witness ==
    /\ pc = "done"
    /\ Plain
    /\ \E n, m \in 1..Len(melted) :
          /\ melted[n].Time.ok /\ melted[m].Time.ok
          /\ melted[n].Time.min < melted[m].Time.min
          /\ melted[n].Bin = melted[m].Bin
    /\ \E n, m \in 1..Len(melted) :
          /\ melted[n].Time.ok /\ melted[m].Time.ok
          /\ melted[n].Time.min < melted[m].Time.min
          /\ melted[n].Bin.min < melted[m].Bin.min

\* two rows of different devices and the same time have the same bin
C24_WitnessDevices ==
    /\ pc = "done"
    /\ Plain
    /\ \E n, m \in 1..Len(melted) :
          /\ melted[n].Dataset # melted[m].Dataset
          /\ melted[n].Time.ok
          /\ melted[n].Time = melted[m].Time
          /\ melted[n].Bin = melted[m].Bin

\* the messages of the two stages
Melting == "Melting data..."

Binning == "Binning data..."

\* C25: in a run of melt_then_bin with a hook, the hook gets the melting
\* message once, before melt_activity_data reads a row (also when it then
\* fails), and the binning message once, after the long table exists and the
\* interval has passed the test for digits; it gets nothing else, however
\* many rows there are, and no binning message for an interval that fails
\* that test.
C25_HookAtStageBoundaries ==
    hook /\ pc # "rebinned" =>
        /\ pc = "start" => msgs = <<>>
        /\ pc = "melted" => msgs = <<Melting>>
        /\ pc = "done" => msgs = <<Melting, Binning>>
        /\ pc = "error" =>
              msgs = IF MeltFailed \/ SearchDigits(interval) = 0
                     THEN <<Melting>>
                     ELSE <<Melting, Binning>>

\* a long table of four rows was made and the interval "abc minutes" then
\* failed the test: the hook got the melting message only
C25_Witness ==
    /\ hook
    /\ pc = "error"
    /\ SearchDigits(interval) = 0
    /\ Len(melted) = 4
    /\ msgs = <<Melting>>

\* a run over as many rows got both messages, once each
C25_WitnessDone ==
    /\ hook
    /\ pc = "done"
    /\ Len(melted) = 4
    /\ msgs = <<Melting, Binning>>

\* the device and the derived minute of a slot
MinuteOf(p) == <<wide[p[1]].Dataset, wide[p[1]].Time.min - p[2]>>

\* the filled slots of other wide rows that fall on the device and minute of p
SharedWith(p) == {q \in TimedSlots : q[1] # p[1] /\ MinuteOf(q) = MinuteOf(p)}

\* the rows of the long table at the device and minute of p
LongAt(p) ==
    {n \in 1..Len(melted) :
        /\ melted[n].Time.ok
        /\ <<melted[n].Dataset, melted[n].Time.min>> = MinuteOf(p)}

\* C28: the long table has one row per filled slot of the wide rows that have
\* a device, also where slots of several wide rows of a device fall on one
\* minute: that minute has as many long rows as slots, and the sum, the mean
\* and the percent of a bin count it once for each of them.
C28_SharedMinuteNotMerged ==
    /\ pc \in {"melted", "done"} =>
          /\ Len(melted) = Cardinality(FilledSlots)
          /\ \A p \in TimedSlots :
                Cardinality(LongAt(p)) = 1 + Cardinality(SharedWith(p))
    /\ pc = "done" /\ Plain =>
          \A k \in 1..Len(out) : \A r \in RulesWith({"mean", "sum", "act_percent"}) :
              LET cells == RuleCells(k, r)
                  v == out[k].vals[r].val
                  agg == schedule[r].summarize
              IN  (\E x \in cells : SharedWith(x[1]) # {}) =>
                    /\ v # Missing
                    /\ agg = "sum" => v = Num(SumCells(cells))
                    /\ agg = "mean" => v[1] * Cardinality(cells) = SumCells(cells) * v[2]
                    /\ agg = "act_percent" =>
                          v[1] * Cardinality(cells)
                            = (SumCells(cells) * 50 + 50 * Cardinality(cells)) * v[2]

\* two wide rows of device 1 with the same time and the same window were
\* binned: four long rows, two on each minute, and the sum of T over the bin
\* counts the temperature 5 four times
C28_Witness ==
    /\ pc = "done"
    /\ Plain
    /\ Len(wide) = 2
    /\ wide[1] = wide[2]
    /\ wide[1].Dataset = <<1>>
    /\ wide[1].Time.ok
    /\ wide[1].Act = <<Num(-1), Num(3)>>
    /\ Len(melted) = 4
    /\ \A p \in TimedSlots : Cardinality(LongAt(p)) = 2
    /\ wide[1].T = Num(5)
    /\ \E k \in 1..Len(out) : \E r \in RulesWith({"sum"}) :
          /\ schedule[r].columns = <<"T">>
          /\ Cardinality(RuleCells(k, r)) = 4
          /\ out[k].vals[r].val = Num(20)

\* two wide rows of a device one minute apart were binned, the minute their
\* windows share counted for both
C28_WitnessOverlap ==
    /\ pc = "done"
    /\ Len(wide) = 2
    /\ wide[1].Dataset = wide[2].Dataset
    /\ wide[1].Time.ok /\ wide[2].Time.ok
    /\ wide[1].Time.min # wide[2].Time.min
    /\ \E p \in TimedSlots : SharedWith(p) # {}

-----------------------------------------------------------------------------
(* BinningWorker *)

\* a worker was started and its run has returned
Ended == binning_worker # NoWorker /\ pc = "ended"

\* the worker could read its file, and the table has a column "Time"
ReadOk ==
    /\ Readable(binning_worker.file_path)
    /\ TIME_COLUMN \in FileColumns(binning_worker.file_path)

\* C26: a run of BinningWorker emits exactly one terminal signal, and only as
\* its last step: finished with the binned table when reading, trimming and
\* melt_then_bin succeeded, errored with the error text and no table
\* otherwise; every status message was emitted before it.
C26_ExactlyOneTerminalSignal ==
    /\ ~Ended => signals = <<>>
    /\ Ended =>
          /\ Len(signals) = 1
          /\ signals[1].after = Len(msgs)
          /\ signals[1].sig \in {"finished", "errored"}
          /\ signals[1].sig = "finished" <=> err = ""
          /\ signals[1].sig = "finished" =>
                /\ ReadOk
                /\ Returned(signals[1].table) \in OutcomesOf(wide)
          /\ signals[1].sig = "errored" =>
                /\ signals[1].table = <<>>
                /\ signals[1].text = err
                /\ ReadOk => Raised(err) \in OutcomesOf(wide)

\* a run ended with finished, a table of two bins, after its three messages
C26_Witness ==
    /\ Ended
    /\ signals[1].sig = "finished"
    /\ Len(signals[1].table) = 2
    /\ msgs = <<"Reading Data...", Melting, Binning>>

\* a run ended with errored, melt_activity_data having raised
C26_WitnessErrored ==
    /\ Ended
    /\ signals[1].sig = "errored"
    /\ signals[1].text = "KeyError"
    /\ ReadOk
    /\ msgs = <<"Reading Data...", Melting>>

\* the hour of a bound on the 24 hour clock
HourOf(b) == IF b.pm THEN (b.hour % 12) + 12 ELSE b.hour % 12

\* the instant of a bound, in minutes
InstantOf(b) == (b.day * 24 + HourOf(b)) * 60 + b.minute

\* the table of the worker's file, its times parsed
Source == ParseTimes(FileTable(binning_worker.file_path))

\* the rows of the file that lie between the bounds of the worker
Within ==
    { i \in 1..Len(Source) :
        /\ Source[i].Time.ok
        /\ InstantOf(binning_worker.start) <= Source[i].Time.min
        /\ Source[i].Time.min <= InstantOf(binning_worker.end) }

\* the rows the worker has to keep
Keep == IF binning_worker.already_trimmed THEN 1..Len(Source) ELSE Within

\* the k-th row of Keep
KeepAt(k) == CHOOSE i \in Keep : Cardinality({j \in Keep : j < i}) = k - 1

\* the worker has read its table and handed it to the pipeline
Handed == binning_worker # NoWorker /\ pc \notin {"idle", "read"} /\ ReadOk

C27_WitnessAlreadyTrimmed ==
    /\ Handed
    /\ binning_worker.already_trimmed
    /\ binning_worker.file_path = "/a/x.csv"
    /\ binning_worker.start = Bound(0, 13, 15, FALSE)
    /\ binning_worker.end = Bound(0, 0, 0, FALSE)
    /\ Len(wide) = 4

-----------------------------------------------------------------------------
(* BinningPanel *)

\* a worker the panel started has not delivered its finished or errored signal
Pending == binning_worker # NoWorker /\ handled = 0

\* C29: whatever the order of submit, browse, set_bin_file and the worker's
\* signals, the Submit button is hidden exactly while a worker the panel
\* started has not delivered its finished or errored signal; so at most one
\* worker runs at a time, and once the signal is delivered the button is
\* visible, the progress bar hidden and the status label empty.
C29_ButtonHiddenWhilePending ==
    /\ ~btn_bin.visible <=> Pending
    /\ live \in {0, 1}
    /\ live = 1 => Pending
    /\ Pending => bin_progress
    /\ ~Pending =>
          /\ btn_bin.visible
          /\ ~bin_progress
          /\ status_lbl = ""

\* a worker is running with the button hidden and a status shown, after
\* another file was chosen behind it
C29_Witness ==
    /\ Pending
    /\ live = 1
    /\ ~btn_bin.visible
    /\ bin_progress
    /\ status_lbl = Melting
    /\ bin_file # binning_worker.file_path

\* the errored signal of a worker was delivered: the button is back
C29_WitnessErrored ==
    /\ binning_worker # NoWorker
    /\ handled = 1
    /\ signals[1].sig = "errored"
    /\ Len(msgs) = 2
    /\ btn_bin.visible /\ btn_bin.enabled
    /\ ~bin_progress
    /\ status_lbl = ""

\* C30 as stated: a step that writes a binned CSV writes it into the
\* directory of the file the worker of that run read, and a path is emitted
\* by binned_filepath only when its file was written.
C30_WrittenNextToInputRead ==
    [][ /\ \A p \in written' \ written : p.dir = dirname(binning_worker.file_path)
        /\ published' \subseteq written' ]_vars

====
